---- MODULE Spec2Model ----
(***************************************************************************)
(* A model of the Jeop3 benchmarking scripts (scripts/benchmark_models.py):*)
(* the response evaluator evaluate_response, the pricing cache             *)
(* fetch_model_pricing / calculate_cost, the driver main / test_model, and *)
(* the cleaner clean_response (scripts/quality_compare.py) and the prompt  *)
(* builder build_jeopardy_prompt.                                          *)
(*                                                                         *)
(* Texts are sequences of one-character strings.  A response text is kept  *)
(* as the JSON document it denotes (or as "invalid" when json.loads would  *)
(* reject it); Python exceptions are outcomes [raised |-> <name>].         *)
(***************************************************************************)
EXTENDS Integers, Sequences, FiniteSets, TLC

VARIABLES
    response_text,   \* evaluate_response: the text handed to the evaluator
    outcome,         \* evaluate_response: what the call produced
    pc_eval,         \* evaluate_response: "call" before, "done" after the call
    defects,         \* how many defects response_text has been given
    MODEL_PRICING,   \* the module-level pricing cache: model id -> entry
    fetch_calls,     \* fetch_model_pricing: calls made so far
    pricing_requests,\* fetch_model_pricing: GETs sent to the pricing endpoint
    populations,     \* fetch_model_pricing: calls that put entries in the cache
    last_fetch,      \* fetch_model_pricing: how the latest call went
    last_cost,       \* calculate_cost: the latest call and what it returned
    api_key,         \* main: whether OPENROUTER_API_KEY is set
    pc,              \* main: where the run is
    mi, ti,          \* main: the model and the test case the loop is at
    model_results,   \* main: the records of the model being tested
    results,         \* main: the finished models, in order
    call_log,        \* main: the completion requests issued, in order
    reports_rendered,\* main: times print_results ran to its end
    files_written,   \* main: times the results file was written
    crash,           \* main: the exception that ended the run, if one did
    raw_text,        \* clean_response: the text handed to the cleaner
    pieces,          \* how many pieces raw_text has been put together from
    cleaned_text,    \* clean_response: what it returned for raw_text
    cleaned_again,   \* clean_response: what it returned for cleaned_text
    extracted_text,  \* extract_json: what it hands to json.loads for raw_text
    pc_clean,        \* the cleaner: "compose", "cleaned", "recleaned", "extracted"
    prompt_args,     \* build_jeopardy_prompt: the arguments of the call
    prompt,          \* build_jeopardy_prompt: the prompt it returned
    pc_prompt,       \* the prompt builders: "args", "call", "built", "built_categories"
    categories_prompt, \* benchmark_ai.build_prompt: the prompt it returned
    ai_pc,           \* benchmark_ai.main: "loop", "summary", "done"
    ai_mi,           \* benchmark_ai.main: the model the loop is at
    ai_results,      \* benchmark_ai.main: the records appended so far
    ai_log           \* benchmark_ai.main: what each remote call produced

evalVars == <<response_text, outcome, pc_eval, defects>>
pricingVars == <<fetch_calls, pricing_requests, populations, last_fetch, last_cost>>
mainVars == <<api_key, pc, mi, ti, model_results, results, call_log,
              reports_rendered, files_written, crash>>
cleanVars == <<raw_text, pieces, cleaned_text, cleaned_again, extracted_text, pc_clean>>
promptVars == <<prompt_args, prompt, pc_prompt, categories_prompt>>
aiVars == <<ai_pc, ai_mi, ai_results, ai_log>>
vars == <<evalVars, MODEL_PRICING, pricingVars, mainVars, cleanVars, promptVars,
          aiVars>>

\* The elements of a sequence.
Range(seq) == {seq[i] : i \in 1..Len(seq)}

-----------------------------------------------------------------------------
(* Python text helpers.                                                    *)

\* str.lower() on one character.
Lower(c) ==
    CASE c = "R" -> "r"
      [] c = "P" -> "p"
      [] c = "B" -> "b"
      [] c = "M" -> "m"
      [] c = "L" -> "l"
      [] OTHER -> c

\* Characters str.strip() removes.
IsSpace(c) == c \in {" ", "\t", "\n"}

str_lower(s) == [i \in 1..Len(s) |-> Lower(s[i])]

RECURSIVE str_lstrip(_)
str_lstrip(s) ==
    IF s # <<>> /\ IsSpace(Head(s)) THEN str_lstrip(Tail(s)) ELSE s

RECURSIVE str_rstrip(_)
str_rstrip(s) ==
    IF s # <<>> /\ IsSpace(s[Len(s)])
    THEN str_rstrip(SubSeq(s, 1, Len(s) - 1))
    ELSE s

str_strip(s) == str_rstrip(str_lstrip(s))

-----------------------------------------------------------------------------
(* JSON values as the evaluator sees them.                                 *)
(*   field  : [kind, s]  kind "absent" (key missing), "null", "str" (text  *)
(*            s), "num" (a non-zero number: a truthy value with no string  *)
(*            methods)                                                     *)
(*   value  : [tag, n]   tag "absent", "int" (the integer n), "str" (the   *)
(*            string spelling n, e.g. "200")                               *)
(*   clue   : [kind, value, clue, response]  kind "object", or "number" /  *)
(*            "string" for a list item that is no object                   *)
(*   text   : [kind, clues] kind "invalid" (not JSON), "object", or        *)
(*            "null" / "list" / "string" for JSON that is no object;       *)
(*            clues = [kind, items] with kind "absent", "list", "number",  *)
(*            "string"                                                     *)

\* Python truthiness of a field value (c.get(key)).
Truthy(f) == (f.kind = "str" /\ f.s # <<>>) \/ f.kind = "num"

\* v == c.get("value") for an expected integer v.
PyEq(v, pv) == pv.tag = "int" /\ pv.n = v

-----------------------------------------------------------------------------
(* calculate_cost.  Prices are whole numbers and the cost is kept in       *)
(* millionths (cost_usd * 1e6 = prompt_tokens * prompt + completion_tokens *)
(* * completion), so 0 stands for the float 0.0.                           *)

\* A variant that charges the prompt price for the completion tokens too.
calculate_cost_one_price(model, prompt_tokens, completion_tokens) ==
    IF model \notin DOMAIN MODEL_PRICING
    THEN 0
    ELSE (prompt_tokens + completion_tokens) * MODEL_PRICING[model].prompt

\* A variant that charges a default rate for a model without an entry.
calculate_cost_default_rate(model, prompt_tokens, completion_tokens) ==
    LET pricing == IF model \in DOMAIN MODEL_PRICING THEN MODEL_PRICING[model]
                   ELSE [prompt |-> 1, completion |-> 1]
    IN  prompt_tokens * pricing.prompt + completion_tokens * pricing.completion

calculate_cost(model, prompt_tokens, completion_tokens) ==
    IF model \notin DOMAIN MODEL_PRICING
    THEN 0
    ELSE LET pricing == MODEL_PRICING[model]
             prompt_cost == prompt_tokens * pricing.prompt
             completion_cost == completion_tokens * pricing.completion
         IN  prompt_cost + completion_cost

-----------------------------------------------------------------------------
(* fetch_model_pricing.  The endpoint's reply is [kind, data]: kind        *)
(* "request_error" (requests.get raises), "error_status" (raise_for_status *)
(* raises), "bad_json" (response.json() raises) or "ok", with data the     *)
(* listed records.  A record is [kind, id, prompt, completion]: "priced",  *)
(* "unpriced" (no pricing, or an empty one), or "bad" (reading it raises:  *)
(* a record that is no object, a price that is no number).                 *)

\* MODEL_PRICING[model_id] = {"prompt": ..., "completion": ...}
put_pricing(cache, model_id, entry) ==
    [m \in DOMAIN cache \cup {model_id} |->
        IF m = model_id THEN entry ELSE cache[m]]

\* for model in data.get("data", []): ... ; stops at the record that raises.
RECURSIVE read_records(_, _)
read_records(records, cache) ==
    IF records = <<>> THEN [raised |-> FALSE, cache |-> cache]
    ELSE LET model == Head(records)
         IN  IF model.kind = "bad" THEN [raised |-> TRUE, cache |-> cache]
             ELSE IF model.kind = "priced"
             THEN read_records(Tail(records),
                      put_pricing(cache, model.id,
                          [prompt |-> model.prompt, completion |-> model.completion]))
             ELSE read_records(Tail(records), cache)

\* A variant without the early return: every call fetches.
cache_never_filled(cache) == FALSE

\* if MODEL_PRICING:
cache_is_filled(cache) == DOMAIN cache # {}

\* The whole call: what the cache holds afterwards, whether a request was
\* sent, and whether the except branch ran.  The call always returns.
fetch_model_pricing(cache, reply) ==
    IF cache_is_filled(cache)
    THEN [cache |-> cache, requested |-> FALSE, failed |-> FALSE]
    ELSE IF reply.kind # "ok"
    THEN [cache |-> cache, requested |-> TRUE, failed |-> TRUE]
    ELSE LET r == read_records(reply.data, cache)
         IN  [cache |-> r.cache, requested |-> TRUE, failed |-> r.raised]

-----------------------------------------------------------------------------
(* evaluate_response.                                                      *)

\* The ladder test_model passes as expected_values.
EXPECTED_VALUES == <<200, 400, 600, 800, 1000>>

\* The clue count below which the "too few clues" penalty applies.
EXPECTED_CLUE_COUNT == 5

\* Variants of the first result with a check that starts out as passed.
initial_result_unique(model, prompt_tokens, completion_tokens) ==
    [ valid_json |-> FALSE, parse_error |-> "None",
      all_values_present |-> FALSE, missing_values |-> <<>>,
      unique_answers |-> TRUE, duplicate_answers |-> <<>>,
      clue_count |-> 0, clues |-> <<>>, quality_score |-> 0,
      token_usage |-> [ prompt_tokens |-> prompt_tokens,
                        completion_tokens |-> completion_tokens,
                        total_tokens |-> prompt_tokens + completion_tokens ],
      cost_usd |-> 0 ]
initial_result_all_present(model, prompt_tokens, completion_tokens) ==
    [ valid_json |-> FALSE, parse_error |-> "None",
      all_values_present |-> TRUE, missing_values |-> <<>>,
      unique_answers |-> FALSE, duplicate_answers |-> <<>>,
      clue_count |-> 0, clues |-> <<>>, quality_score |-> 0,
      token_usage |-> [ prompt_tokens |-> prompt_tokens,
                        completion_tokens |-> completion_tokens,
                        total_tokens |-> prompt_tokens + completion_tokens ],
      cost_usd |-> 0 ]

\* The result dict as first built, before parsing.
initial_result(model, prompt_tokens, completion_tokens) ==
    [ valid_json |-> FALSE,
      parse_error |-> "None",
      all_values_present |-> FALSE,
      missing_values |-> <<>>,
      unique_answers |-> FALSE,
      duplicate_answers |-> <<>>,
      clue_count |-> 0,
      clues |-> <<>>,
      quality_score |-> 0,
      token_usage |-> [ prompt_tokens |-> prompt_tokens,
                        completion_tokens |-> completion_tokens,
                        total_tokens |-> prompt_tokens + completion_tokens ],
      cost_usd |-> calculate_cost(model, prompt_tokens, completion_tokens) ]

\* A variant of normalize that forgets to trim.
normalize_no_strip(s) == str_lower(s)

\* c.get("response", "").strip().lower()
normalize(s) == str_lower(str_strip(s))

\* [c.get("value") for c in clues if "value" in c]
present_values(clues) ==
    SelectSeq([i \in 1..Len(clues) |-> clues[i].value],
              LAMBDA pv : pv.tag # "absent")

\* A variant of missing_values that goes by count: with k values present,
\* the last (5 - k) ladder values are taken to be the missing ones.
missing_values_by_count(expected_values, present) ==
    SubSeq(expected_values, Len(present) + 1, Len(expected_values))

\* [v for v in expected_values if v not in present_values]
missing_values(expected_values, present) ==
    SelectSeq(expected_values,
              LAMBDA v : ~ \E k \in 1..Len(present) : PyEq(v, present[k]))

\* [c.get("response", "").strip().lower() for c in clues if c.get("response")]
RECURSIVE responses_of(_)
responses_of(clues) ==
    IF clues = <<>> THEN <<>>
    ELSE IF Truthy(Head(clues).response)
         THEN <<normalize(Head(clues).response.s)>> \o responses_of(Tail(clues))
         ELSE responses_of(Tail(clues))

\* The clue whose value the loop reads for the i-th response: clues[i].
clue_for_response(clues, i) == clues[i]

\* A variant that reports a repeated response once, at its first repeat.
RECURSIVE find_duplicates_once(_, _, _, _, _)
find_duplicates_once(clues, responses, i, seen, duplicates) ==
    IF i > Len(responses) THEN duplicates
    ELSE LET r == responses[i]
             count == IF r \in DOMAIN seen THEN seen[r] ELSE 0
             dups == IF count = 1
                     THEN Append(duplicates,
                                 [ value |-> clue_for_response(clues, i).value,
                                   response |-> r ])
                     ELSE duplicates
             seen2 == [x \in DOMAIN seen \cup {r} |->
                          IF x = r THEN count + 1 ELSE seen[x]]
         IN  find_duplicates_once(clues, responses, i + 1, seen2, dups)

\* for i, r in enumerate(responses): if r in seen: duplicates.append(...) ;
\* seen[r] = seen.get(r, 0) + 1.   An entry is the pair printed as
\* "Value <value>: <r>".
RECURSIVE find_duplicates(_, _, _, _, _)
find_duplicates(clues, responses, i, seen, duplicates) ==
    IF i > Len(responses) THEN duplicates
    ELSE LET r == responses[i]
             dups == IF r \in DOMAIN seen
                     THEN Append(duplicates,
                                 [ value |-> clue_for_response(clues, i).value,
                                   response |-> r ])
                     ELSE duplicates
             count == IF r \in DOMAIN seen THEN seen[r] ELSE 0
             seen2 == [x \in DOMAIN seen \cup {r} |->
                          IF x = r THEN count + 1 ELSE seen[x]]
         IN  find_duplicates(clues, responses, i + 1, seen2, dups)

\* A variant of field_penalties with "elif": a clue with neither field
\* loses one point, not two.
RECURSIVE field_penalties_elif(_, _)
field_penalties_elif(clues, score) ==
    IF clues = <<>> THEN score
    ELSE LET clue == Head(clues)
             s1 == IF ~ Truthy(clue.clue) THEN score - 1
                   ELSE IF ~ Truthy(clue.response) THEN score - 1
                   ELSE score
         IN  field_penalties_elif(Tail(clues), s1)

\* for clue in clues: one point off for no clue text, one for no response.
RECURSIVE field_penalties(_, _)
field_penalties(clues, score) ==
    IF clues = <<>> THEN score
    ELSE LET clue == Head(clues)
             s1 == IF ~ Truthy(clue.clue) THEN score - 1 ELSE score
             s2 == IF ~ Truthy(clue.response) THEN s1 - 1 ELSE s1
         IN  field_penalties(Tail(clues), s2)

Max(a, b) == IF a >= b THEN a ELSE b
Min(a, b) == IF a <= b THEN a ELSE b

\* A variant of clamp_score without the floor.
clamp_score_no_floor(score) == Min(10, score)

\* max(0, min(10, score))
clamp_score(score) == Max(0, Min(10, score))

\* score = 10, then the four penalties, then the clamp.
quality_score(clues, missing, duplicates) ==
    LET s0 == 10
        s1 == s0 - Len(missing) * 2
        s2 == s1 - Len(duplicates) * 3
        s3 == field_penalties(clues, s2)
        s4 == IF Len(clues) < EXPECTED_CLUE_COUNT
              THEN s3 - (EXPECTED_CLUE_COUNT - Len(clues)) * 1
              ELSE s3
    IN  clamp_score(s4)

\* The exception, if any, that reading the clue list raises: "value" in c
\* on a number (TypeError) while present_values is built; c.get on a
\* string (AttributeError) or .strip() on a number (AttributeError) while
\* responses is built.
clue_list_error(clues) ==
    IF \E i \in 1..Len(clues) : clues[i].kind = "number" THEN "TypeError"
    ELSE IF \E i \in 1..Len(clues) :
                \/ clues[i].kind = "string"
                \/ clues[i].response.kind = "num"
         THEN "AttributeError"
         ELSE "none"

Returned(result) == [raised |-> "none", result |-> result]
Raised(exc) == [raised |-> exc]

\* The except branch: the result as first built, with the decoder's message.
parse_error_swallowed(result) == result
parse_error_result(result) == [result EXCEPT !.parse_error = "JSON parse error"]

\* "if not clues", and a variant that only looks for None.
no_clues_is_none(clues) == FALSE
no_clues(clues) == clues = <<>>

\* json.JSONDecodeError is the only exception the function catches.
evaluate_response(text, expected_values, model, prompt_tokens, completion_tokens) ==
    LET result == initial_result(model, prompt_tokens, completion_tokens)
    IN
    IF text.kind = "invalid"
    THEN Returned(parse_error_result(result))
    ELSE IF text.kind # "object"
    THEN Raised("AttributeError")            \* data.get on a list, str, None
    ELSE IF text.clues.kind = "number"
    THEN Raised("TypeError")                 \* len(clues)
    ELSE
    LET clues == text.clues.items
        r1 == [result EXCEPT !.valid_json = TRUE,
                             !.clue_count = Len(clues),
                             !.clues = clues]
    IN
    IF no_clues(clues)
    THEN Returned([r1 EXCEPT !.parse_error = "No clues found in response"])
    ELSE IF clue_list_error(clues) # "none"
    THEN Raised(clue_list_error(clues))
    ELSE
    LET present == present_values(clues)
        missing == missing_values(expected_values, present)
        responses == responses_of(clues)
        unique_responses == {responses[i] : i \in 1..Len(responses)}
        duplicates == find_duplicates(clues, responses, 1, <<>>, <<>>)
    IN  Returned([r1 EXCEPT
            !.missing_values = missing,
            !.all_values_present = (Len(missing) = 0),
            !.unique_answers = (Len(responses) = Cardinality(unique_responses)),
            !.duplicate_answers = duplicates,
            !.quality_score = quality_score(clues, missing, duplicates)])

-----------------------------------------------------------------------------
(* The response texts the evaluator is run on: the response the prompt     *)
(* asks for (five clues, one per ladder value, five different answers),    *)
(* given up to MaxDefects defects by the remote model.                     *)

MaxDefects == 2

Absent == [kind |-> "absent", s |-> <<>>]
Null == [kind |-> "null", s |-> <<>>]
Num == [kind |-> "num", s |-> <<>>]
Str(s) == [kind |-> "str", s |-> s]

NoValue == [tag |-> "absent", n |-> 0]
IntValue(n) == [tag |-> "int", n |-> n]
StrValue(n) == [tag |-> "str", n |-> n]

Object(value, clue, response) ==
    [kind |-> "object", value |-> value, clue |-> clue, response |-> response]
NonObject(kind) ==
    [kind |-> kind, value |-> NoValue, clue |-> Absent, response |-> Absent]

ClueList(items) == [kind |-> "list", items |-> items]
JsonObject(clues) == [kind |-> "object", clues |-> clues]
NonObjectText(kind) == [kind |-> kind, clues |-> [kind |-> "absent", items |-> <<>>]]

\* Rome, Paris, Berlin, Madrid, Lisbon, by their initials.
Answers == << <<"R">>, <<"P">>, <<"B">>, <<"M">>, <<"L">> >>

WellFormedClues ==
    [i \in 1..Len(EXPECTED_VALUES) |->
        Object(IntValue(EXPECTED_VALUES[i]), Str(<<"c">>), Str(Answers[i]))]

WellFormedText == JsonObject(ClueList(WellFormedClues))

\* What one defect can put in place of a clue's value, clue text, response.
ValueDefects == {NoValue, IntValue(200), IntValue(300), StrValue(200)}
ClueDefects == {Absent, Str(<<>>)}
ResponseDefects ==
    {Absent, Null, Num, Str(<<>>), Str(<<" ">>), Str(<<"r">>),
     Str(<<" ", "R">>), Str(<<"R", "\t">>)}

RemoveAt(seq, i) == SubSeq(seq, 1, i - 1) \o SubSeq(seq, i + 1, Len(seq))

\* The texts one defect away from text t.
Defects(t) ==
    IF t.kind # "object" \/ t.clues.kind # "list" THEN {}
    ELSE LET items == t.clues.items
             With(newItems) == JsonObject(ClueList(newItems))
         IN  \* the text is no JSON, or JSON that is no object
             {NonObjectText(k) : k \in {"invalid", "null", "list", "string"}}
             \* the clues field is missing, a number, or a string
             \cup {JsonObject([kind |-> "absent", items |-> <<>>]),
                   JsonObject([kind |-> "number", items |-> <<>>]),
                   JsonObject([kind |-> "string", items |-> <<NonObject("string")>>])}
             \* the list is cut short, or a clue is left out
             \cup {With(SubSeq(items, 1, n)) : n \in 0..(Len(items) - 1)}
             \cup {With(RemoveAt(items, i)) : i \in 1..Len(items)}
             \* one more clue than asked for
             \cup {With(Append(items, Object(IntValue(v), Str(<<"c">>), Str(<<"R">>)))) :
                       v \in {200, 1200}}
             \* a clue that is no object
             \cup {With([items EXCEPT ![i] = NonObject(k)]) :
                       i \in 1..Len(items), k \in {"number", "string"}}
             \* one field of one clue
             \cup {With([items EXCEPT ![i].value = v]) :
                       i \in {j \in 1..Len(items) : items[j].kind = "object"},
                       v \in ValueDefects}
             \cup {With([items EXCEPT ![i].clue = c]) :
                       i \in {j \in 1..Len(items) : items[j].kind = "object"},
                       c \in ClueDefects}
             \cup {With([items EXCEPT ![i].response = r]) :
                       i \in {j \in 1..Len(items) : items[j].kind = "object"},
                       r \in ResponseDefects}

\* Token usage reported with a response: none, or some.
Usages == {[prompt_tokens |-> 0, completion_tokens |-> 0],
           [prompt_tokens |-> 300, completion_tokens |-> 150]}

-----------------------------------------------------------------------------
(* SpecEval: evaluate_response applied to one response text.               *)

\* The evaluator, the cache and the driver before anything has run.
EvalIdle ==
    /\ response_text = WellFormedText
    /\ outcome = [raised |-> "pending"]
    /\ pc_eval = "call"
    /\ defects = 0

PricingIdle ==
    /\ MODEL_PRICING = <<>>
    /\ fetch_calls = 0
    /\ pricing_requests = 0
    /\ populations = 0
    /\ last_fetch = "none"
    /\ last_cost = [model |-> "none", prompt_tokens |-> 0,
                    completion_tokens |-> 0, cost |-> 0, table |-> <<>>]

-----------------------------------------------------------------------------
(* build_jeopardy_prompt.  A Python value handed in as difficulty is       *)
(* [kind, name]: a str with its text, None, or "omitted" when the call     *)
(* leaves the argument out.  reference_material is None or a text.  The    *)
(* prompt is kept as the parts the f-string puts together, in order.       *)

PyStr(name) == [kind |-> "str", name |-> name]
PyNone == [kind |-> "None", name |-> ""]
Omitted == [kind |-> "omitted", name |-> ""]

\* The literal dict of difficulty sentences.
DIFFICULTY_SENTENCES ==
    [ easy |-> "Make questions accessible and straightforward.",
      normal |-> "Balanced difficulty level.",
      hard |-> "Make questions challenging and specific." ]

\* A variant of the lookup with no default: dict.get(difficulty).
difficulty_text_no_default(difficulty) ==
    IF difficulty.kind = "str" /\ difficulty.name \in DOMAIN DIFFICULTY_SENTENCES
    THEN DIFFICULTY_SENTENCES[difficulty.name]
    ELSE "None"

\* {...}.get(difficulty, 'Balanced difficulty level.')
difficulty_text(difficulty) ==
    IF difficulty.kind = "str" /\ difficulty.name \in DOMAIN DIFFICULTY_SENTENCES
    THEN DIFFICULTY_SENTENCES[difficulty.name]
    ELSE "Balanced difficulty level."

value_guidance ==
    << [value |-> 200, text |-> "Obvious / very well-known facts"],
       [value |-> 400, text |-> "Common knowledge within topic"],
       [value |-> 600, text |-> "Requires familiarity with the topic"],
       [value |-> 800, text |-> "Niche or specific details"],
       [value |-> 1000, text |-> "Deep cuts / less obvious information"] >>

\* reference_material[:3000]
REFERENCE_LIMIT == 3000

NoReference == [kind |-> "None", text |-> <<>>]
Reference(text) == [kind |-> "str", text |-> text]

\* A variant that embeds the reference material whole.
ref_material_text_uncut(reference_material) ==
    IF reference_material.kind = "str" /\ reference_material.text # <<>>
    THEN [ present |-> TRUE, material |-> reference_material.text ]
    ELSE [ present |-> FALSE, material |-> <<>> ]

\* The source-material block: empty for None and for the empty text.
ref_material_text(reference_material) ==
    IF reference_material.kind = "str" /\ reference_material.text # <<>>
    THEN [ present |-> TRUE,
           material |-> SubSeq(reference_material.text, 1,
                               Min(REFERENCE_LIMIT,
                                   Len(reference_material.text))) ]
    ELSE [ present |-> FALSE, material |-> <<>> ]

build_jeopardy_prompt(category, content_topic, theme, difficulty, reference_material) ==
    [ category |-> category,
      content_topic |-> content_topic,
      theme |-> theme,
      difficulty_text |-> difficulty_text(difficulty),
      guidance_text |-> value_guidance,
      ref_material_text |-> ref_material_text(reference_material) ]

NoPrompt == build_jeopardy_prompt("", "", "", PyNone, NoReference)

\* benchmark_ai.build_prompt(type, context, difficulty): the system and the
\* user prompt.  difficulty_text is set to the one sentence whatever the
\* difficulty; only 'categories-generate' has a template.
SYSTEM_INSTRUCTION == "You are a Jeopardy game content generator."
TEST_PROMPT ==
    [ promptType |-> "categories-generate",
      context |-> [theme |-> "pre ww2 events up to Sept 1939", count |-> 6] ]

build_prompt(type, context, difficulty) ==
    LET difficulty_text_ == "Balanced difficulty level."
    IN  IF type = "categories-generate"
        THEN [ system |-> SYSTEM_INSTRUCTION,
               user |-> [ text |-> "Generate Jeopardy categories",
                          count |-> context.count,
                          theme |-> context.theme,
                          difficulty_text |-> difficulty_text_,
                          guidance_text |-> value_guidance ] ]
        ELSE [ system |-> SYSTEM_INSTRUCTION,
               user |-> [ text |-> "Generate Jeopardy content.",
                          count |-> 0,
                          theme |-> "",
                          difficulty_text |-> "",
                          guidance_text |-> <<>> ] ]

PromptIdle ==
    /\ prompt_args = [test_case |-> 1, difficulty |-> Omitted,
                      reference_material |-> NoReference,
                      prompt_type |-> "categories-generate"]
    /\ prompt = NoPrompt
    /\ categories_prompt = build_prompt("", TEST_PROMPT.context, PyNone)
    /\ pc_prompt = "args"

AiIdle ==
    /\ ai_pc = "loop"
    /\ ai_mi = 1
    /\ ai_results = <<>>
    /\ ai_log = <<>>

CleanIdle ==
    /\ raw_text = <<>>
    /\ pieces = 0
    /\ cleaned_text = <<>>
    /\ cleaned_again = <<>>
    /\ extracted_text = <<>>
    /\ pc_clean = "compose"

MainIdle ==
    /\ pc = "start"
    /\ mi = 1
    /\ ti = 1
    /\ model_results = <<>>
    /\ results = <<>>
    /\ call_log = <<>>
    /\ reports_rendered = 0
    /\ files_written = 0
    /\ crash = "none"

InitEval ==
    AiIdle /\ PromptIdle /\ CleanIdle /\ EvalIdle /\ PricingIdle /\ MainIdle /\ api_key = TRUE

\* The remote model's text departs from the well-formed one in one more way.
Degrade ==
    /\ pc_eval = "call"
    /\ defects < MaxDefects
    /\ response_text' \in Defects(response_text)
    /\ defects' = defects + 1
    /\ UNCHANGED <<aiVars, cleanVars, promptVars, outcome, pc_eval, MODEL_PRICING, pricingVars, mainVars>>

Evaluate ==
    /\ pc_eval = "call"
    /\ \E u \in Usages :
          outcome' = evaluate_response(response_text, EXPECTED_VALUES, "m1",
                                       u.prompt_tokens, u.completion_tokens)
    /\ pc_eval' = "done"
    /\ UNCHANGED <<aiVars, cleanVars, promptVars, response_text, defects, MODEL_PRICING, pricingVars, mainVars>>

NextEval == Degrade \/ Evaluate

SpecEval == InitEval /\ [][NextEval]_vars

-----------------------------------------------------------------------------
(* SpecPricing: any sequence of fetch_model_pricing and calculate_cost     *)
(* calls in one process.                                                   *)

MaxFetchCalls == 3
MaxRecords == 2

ModelIds == {"google/gemini-2.5-flash", "openai/gpt-4o-mini"}

PricingRecords ==
    {[kind |-> "priced", id |-> "google/gemini-2.5-flash", prompt |-> 3, completion |-> 25],
     [kind |-> "priced", id |-> "openai/gpt-4o-mini", prompt |-> 0, completion |-> 0],
     [kind |-> "unpriced", id |-> "openai/gpt-4o-mini", prompt |-> 0, completion |-> 0],
     [kind |-> "bad", id |-> "", prompt |-> 0, completion |-> 0]}

PricingReplies ==
    {[kind |-> k, data |-> <<>>] : k \in {"request_error", "error_status", "bad_json"}}
    \cup {[kind |-> "ok", data |-> d] :
             d \in UNION {[1..n -> PricingRecords] : n \in 0..MaxRecords}}

InitPricing ==
    AiIdle /\ PromptIdle /\ CleanIdle /\ EvalIdle /\ PricingIdle /\ MainIdle /\ api_key = TRUE

FetchModelPricing ==
    /\ fetch_calls < MaxFetchCalls
    /\ \E reply \in PricingReplies :
          LET r == fetch_model_pricing(MODEL_PRICING, reply)
          IN  /\ MODEL_PRICING' = r.cache
              /\ pricing_requests' = pricing_requests + (IF r.requested THEN 1 ELSE 0)
              /\ populations' = populations + (IF r.cache # MODEL_PRICING THEN 1 ELSE 0)
              /\ last_fetch' = IF ~ r.requested THEN "cached"
                               ELSE IF r.failed THEN "failed" ELSE "fetched"
    /\ fetch_calls' = fetch_calls + 1
    /\ UNCHANGED <<aiVars, cleanVars, promptVars, evalVars, last_cost, mainVars>>

\* The token counts calculate_cost is called with; table is the mapping the
\* call read.
CostUsages ==
    Usages \cup {[prompt_tokens |-> 300, completion_tokens |-> 0],
                 [prompt_tokens |-> 0, completion_tokens |-> 150],
                 [prompt_tokens |-> 600, completion_tokens |-> 450]}

CalculateCost ==
    /\ \E model \in ModelIds \cup {"z-ai/glm-4.7"}, u \in CostUsages :
          last_cost' = [model |-> model,
                        prompt_tokens |-> u.prompt_tokens,
                        completion_tokens |-> u.completion_tokens,
                        cost |-> calculate_cost(model, u.prompt_tokens,
                                                u.completion_tokens),
                        table |-> MODEL_PRICING]
    /\ UNCHANGED <<aiVars, cleanVars, promptVars, evalVars, MODEL_PRICING, fetch_calls, pricing_requests,
                   populations, last_fetch, mainVars>>

NextPricing == FetchModelPricing \/ CalculateCost

SpecPricing == InitPricing /\ [][NextPricing]_vars

-----------------------------------------------------------------------------
(* test_model, print_results and main.  The completion endpoint's reply is *)
(* [kind, message, text, usage]: kind "raised" (the call raises, with that *)
(* message) or "text" (it returns that text, taken as it stands after the  *)
(* code-fence removal, with that token usage).                             *)

NumModels == 2

\* The "model" of each entry of MODELS, in order.
ALL_MODELS ==
    << "google/gemini-3-flash-preview", "google/gemini-2.5-flash-lite",
       "google/gemini-2.5-flash", "z-ai/glm-4.7-flash", "z-ai/glm-4.7",
       "openai/gpt-4o-mini", "x-ai/grok-4.1-fast", "moonshotai/kimi-k2-thinking" >>

\* The models of a run: the first NumModels of the list.
MODELS == SubSeq(ALL_MODELS, 1, NumModels)

\* The "name" of each entry of TEST_CASES, in order.
TEST_CASES ==
    << "Simple Category (No Source)",
       "Complex Category with Source Material",
       "Pop Culture Category" >>

NoneText == NonObjectText("None")

\* The record test_model returns from its except branch.
failure_record(message) ==
    [ success |-> FALSE,
      response_text |-> NoneText,
      evaluation |-> [ valid_json |-> FALSE,
                       parse_error |-> message,
                       quality_score |-> 0,
                       token_usage |-> [ prompt_tokens |-> 0,
                                         completion_tokens |-> 0,
                                         total_tokens |-> 0 ],
                       cost_usd |-> 0 ],
      error |-> message ]

\* A variant of test_model whose try has no except: what the call or the
\* evaluator raises leaves test_model.
test_model_no_except(model, test_case, reply) ==
    IF reply.kind = "raised" THEN Raised(reply.message)
    ELSE LET evaluation == evaluate_response(reply.text, EXPECTED_VALUES, model,
                               reply.usage.prompt_tokens,
                               reply.usage.completion_tokens)
         IN  IF evaluation.raised # "none" THEN Raised(evaluation.raised)
             ELSE Returned([ success |-> TRUE,
                             response_text |-> reply.text,
                             evaluation |-> evaluation.result,
                             error |-> "None" ])

\* test_model: every Exception raised inside the try, by the remote call or
\* by evaluate_response, becomes a failure record.
test_model(model, test_case, reply) ==
    IF reply.kind = "raised" THEN Returned(failure_record(reply.message))
    ELSE LET evaluation == evaluate_response(reply.text, EXPECTED_VALUES, model,
                               reply.usage.prompt_tokens,
                               reply.usage.completion_tokens)
         IN  IF evaluation.raised # "none"
             THEN Returned(failure_record(evaluation.raised))
             ELSE Returned([ success |-> TRUE,
                             response_text |-> reply.text,
                             evaluation |-> evaluation.result,
                             error |-> "None" ])

\* The evaluation keys the summary table reads from every record.
SummaryKeys ==
    {"valid_json", "all_values_present", "unique_answers", "quality_score", "cost_usd"}

\* print_results: "none" when it runs to its end, else the exception that
\* leaves it.  The summary table indexes every record's evaluation
\* (KeyError on a missing key); the detail section takes len() of the clue
\* and response of every clue of a successful record (TypeError on a null
\* or a number).
print_results(all_results) ==
    LET records == UNION {Range(all_results[m].results) : m \in 1..Len(all_results)}
    IN  IF \E r \in records : ~ (SummaryKeys \subseteq DOMAIN r.evaluation)
        THEN "KeyError"
        ELSE IF \E r \in records :
                  /\ r.success
                  /\ \E c \in Range(r.evaluation.clues) :
                        \/ c.clue.kind \in {"null", "num"}
                        \/ c.response.kind \in {"null", "num"}
        THEN "TypeError"
        ELSE "none"

CompletionReplies ==
    {[kind |-> "raised", message |-> "Connection error.", text |-> NoneText,
      usage |-> [prompt_tokens |-> 0, completion_tokens |-> 0]],
     [kind |-> "text", message |-> "", text |-> WellFormedText,
      usage |-> [prompt_tokens |-> 300, completion_tokens |-> 150]],
     [kind |-> "text", message |-> "", text |-> NonObjectText("list"),
      usage |-> [prompt_tokens |-> 300, completion_tokens |-> 150]]}

MainPricingReplies ==
    {[kind |-> "request_error", data |-> <<>>],
     [kind |-> "ok", data |->
        <<[kind |-> "priced", id |-> "google/gemini-3-flash-preview",
           prompt |-> 3, completion |-> 25]>>]}

InitMain ==
    AiIdle /\ PromptIdle /\ CleanIdle /\ EvalIdle /\ PricingIdle /\ MainIdle /\ api_key \in BOOLEAN

\* if not OPENROUTER_API_KEY: print the error and return.
MainNoKey ==
    /\ pc = "start"
    /\ ~ api_key
    /\ pc' = "returned"
    /\ UNCHANGED <<aiVars, cleanVars, promptVars, evalVars, MODEL_PRICING, pricingVars, api_key, mi, ti,
                   model_results, results, call_log, reports_rendered,
                   files_written, crash>>

\* fetch_model_pricing(), then the client and the empty results.
MainFetchPricing ==
    /\ pc = "start"
    /\ api_key
    /\ \E reply \in MainPricingReplies :
          LET r == fetch_model_pricing(MODEL_PRICING, reply)
          IN  /\ MODEL_PRICING' = r.cache
              /\ pricing_requests' = pricing_requests + (IF r.requested THEN 1 ELSE 0)
              /\ populations' = populations + (IF r.cache # MODEL_PRICING THEN 1 ELSE 0)
              /\ last_fetch' = IF ~ r.requested THEN "cached"
                               ELSE IF r.failed THEN "failed" ELSE "fetched"
    /\ fetch_calls' = fetch_calls + 1
    /\ pc' = "loop"
    /\ UNCHANGED <<aiVars, cleanVars, promptVars, evalVars, last_cost, api_key, mi, ti, model_results, results,
                   call_log, reports_rendered, files_written, crash>>

\* One pass of the inner loop: test_model(model, test_case, client), the
\* record appended; after a model's last test case its records are filed
\* under the model and the outer loop moves on.
TestModelAt(model, test_case) ==
    /\ pc = "loop"
    /\ \E reply \in CompletionReplies :
          LET test_result == test_model(model, test_case, reply)
              filed == Append(model_results, test_result.result)
          IN  /\ call_log' = Append(call_log,
                      [model |-> model, test_case |-> test_case, reply |-> reply])
              /\ IF test_result.raised # "none"
                 THEN /\ pc' = "crashed"
                      /\ crash' = test_result.raised
                      /\ UNCHANGED <<mi, ti, model_results, results>>
                 ELSE /\ crash' = crash
                      /\ IF ti < Len(TEST_CASES)
                         THEN /\ ti' = ti + 1
                              /\ model_results' = filed
                              /\ UNCHANGED <<mi, results, pc>>
                         ELSE /\ results' = Append(results,
                                      [model |-> model, results |-> filed])
                              /\ model_results' = <<>>
                              /\ ti' = 1
                              /\ mi' = mi + 1
                              /\ pc' = IF mi < Len(MODELS) THEN "loop" ELSE "report"
    /\ UNCHANGED <<aiVars, cleanVars, promptVars, evalVars, MODEL_PRICING, pricingVars, api_key,
                   reports_rendered, files_written>>

\* A variant with the two loops nested the other way round: every model is
\* asked about the first test case, then every model about the second.
MainTestModel_cases_outer ==
    LET k == Len(call_log)
    IN  TestModelAt(MODELS[(k % Len(MODELS)) + 1],
                    TEST_CASES[(k \div Len(MODELS)) + 1])

\* "for model in MODELS: for test_case in TEST_CASES:"
MainTestModel == TestModelAt(MODELS[mi], TEST_CASES[ti])

\* print_results(results)
MainPrintResults ==
    /\ pc = "report"
    /\ LET e == print_results(results)
       IN  IF e = "none"
           THEN /\ reports_rendered' = reports_rendered + 1
                /\ pc' = "save"
                /\ crash' = crash
           ELSE /\ pc' = "crashed"
                /\ crash' = e
                /\ reports_rendered' = reports_rendered
    /\ UNCHANGED <<aiVars, cleanVars, promptVars, evalVars, MODEL_PRICING, pricingVars, api_key, mi, ti,
                   model_results, results, call_log, files_written>>

\* The results cleaned and dumped to benchmark_results_<timestamp>.json.
MainSaveResults ==
    /\ pc = "save"
    /\ files_written' = files_written + 1
    /\ pc' = "returned"
    /\ UNCHANGED <<aiVars, cleanVars, promptVars, evalVars, MODEL_PRICING, pricingVars, api_key, mi, ti,
                   model_results, results, call_log, reports_rendered, crash>>

NextMain ==
    \/ MainNoKey
    \/ MainFetchPricing
    \/ MainTestModel
    \/ MainPrintResults
    \/ MainSaveResults

SpecMain == InitMain /\ [][NextMain]_vars

-----------------------------------------------------------------------------
(* clean_response (scripts/quality_compare.py), which is also the block    *)
(* test_model runs on the completion text before evaluating it.  str       *)
(* methods are computed on character sequences: startswith, endswith,      *)
(* split on the newline, join with the newline, the slice [:-3], strip.    *)

\* The backquote is written "#" here (a TLA+ string cannot hold a backquote).
BACKQUOTE == "#"
FENCE == <<BACKQUOTE, BACKQUOTE, BACKQUOTE>>
NEWLINE == "\n"

str_startswith(s, prefix) ==
    Len(s) >= Len(prefix) /\ SubSeq(s, 1, Len(prefix)) = prefix

str_endswith(s, suffix) ==
    Len(s) >= Len(suffix) /\ SubSeq(s, Len(s) - Len(suffix) + 1, Len(s)) = suffix

\* s.split(sep) for a one-character sep: always at least one line.
RECURSIVE str_split(_, _)
str_split(s, sep) ==
    IF \A i \in 1..Len(s) : s[i] # sep THEN <<s>>
    ELSE LET at == CHOOSE i \in 1..Len(s) :
                      s[i] = sep /\ \A j \in 1..(i - 1) : s[j] # sep
         IN  <<SubSeq(s, 1, at - 1)>> \o str_split(SubSeq(s, at + 1, Len(s)), sep)

\* sep.join(lines)
RECURSIVE str_join(_, _)
str_join(sep, lines) ==
    IF lines = <<>> THEN <<>>
    ELSE IF Len(lines) = 1 THEN lines[1]
    ELSE lines[1] \o <<sep>> \o str_join(sep, Tail(lines))

\* A variant that takes only the marker off the front.
drop_first_line_marker_only(text) ==
    SubSeq(text, Len(FENCE) + 1, Len(text))

\* The first line goes when there is more than one line: "\n".join(lines[1:]).
drop_first_line(text) ==
    LET lines == str_split(text, NEWLINE)
    IN  IF Len(lines) > 1 /\ str_startswith(lines[1], FENCE)
        THEN str_join(NEWLINE, Tail(lines))
        ELSE text

\* A variant that slices the marker off and does not strip.
drop_closing_fence_no_strip(text) ==
    IF str_endswith(text, FENCE)
    THEN SubSeq(text, 1, Len(text) - 3)
    ELSE text

\* A closing marker goes with the whitespace around what is left: [:-3].strip().
drop_closing_fence(text) ==
    IF str_endswith(text, FENCE)
    THEN str_strip(SubSeq(text, 1, Len(text) - 3))
    ELSE text

\* A variant that strips whatever it is about to return.
clean_response_strip_result(text) ==
    str_strip(IF str_startswith(text, FENCE)
              THEN drop_closing_fence(drop_first_line(text))
              ELSE text)

\* A variant that strips the text before it looks for the fence.
clean_response_strip_first(text) ==
    LET content == str_strip(text)
    IN  IF str_startswith(content, FENCE)
        THEN drop_closing_fence(drop_first_line(content))
        ELSE content

clean_response(text) ==
    IF str_startswith(text, FENCE)
    THEN drop_closing_fence(drop_first_line(text))
    ELSE text

\* benchmark_ai.extract_json up to the call of json.loads: strip, take a
\* leading fence marker with the tag json off (seven characters) or else a
\* bare one (three), take a trailing fence marker off, strip.
JSON_TAG == <<"j", "s", "o", "n">>

extract_json_content(content) ==
    LET stripped == str_strip(content)
        opened   == IF str_startswith(stripped, FENCE \o JSON_TAG)
                    THEN SubSeq(stripped, 8, Len(stripped))
                    ELSE IF str_startswith(stripped, FENCE)
                    THEN SubSeq(stripped, 4, Len(stripped))
                    ELSE stripped
        closed   == IF str_endswith(opened, FENCE)
                    THEN SubSeq(opened, 1, Len(opened) - 3)
                    ELSE opened
    IN  str_strip(closed)

-----------------------------------------------------------------------------
(* SpecClean: clean_response applied to a text, and again to what it       *)
(* returned.  The text is put together from at most MaxPieces pieces: a    *)
(* fence marker, a single backquote, a letter, a newline, a blank, an      *)
(* opening fence line with its language tag, a closing fence on a line of  *)
(* its own, the tag json.  extract_json's unwrapping is applied to the     *)
(* same text.                                                              *)

MaxPieces == 5

Pieces == {FENCE, <<BACKQUOTE>>, <<"j">>, <<NEWLINE>>, <<" ">>,
           FENCE \o <<"j", NEWLINE>>, <<NEWLINE>> \o FENCE, JSON_TAG}

InitClean ==
    AiIdle /\ PromptIdle /\ CleanIdle /\ EvalIdle /\ PricingIdle /\ MainIdle /\ api_key = TRUE

Compose ==
    /\ pc_clean = "compose"
    /\ pieces < MaxPieces
    /\ \E piece \in Pieces : raw_text' = raw_text \o piece
    /\ pieces' = pieces + 1
    /\ UNCHANGED <<cleaned_text, cleaned_again, pc_clean, extracted_text,
                   evalVars, MODEL_PRICING, pricingVars, mainVars, promptVars, aiVars>>

CleanResponse ==
    /\ pc_clean = "compose"
    /\ cleaned_text' = clean_response(raw_text)
    /\ pc_clean' = "cleaned"
    /\ UNCHANGED <<raw_text, pieces, cleaned_again, extracted_text,
                   evalVars, MODEL_PRICING, pricingVars, mainVars, promptVars, aiVars>>

CleanAgain ==
    /\ pc_clean = "cleaned"
    /\ cleaned_again' = clean_response(cleaned_text)
    /\ pc_clean' = "recleaned"
    /\ UNCHANGED <<raw_text, pieces, cleaned_text, extracted_text,
                   evalVars, MODEL_PRICING, pricingVars, mainVars, promptVars, aiVars>>

ExtractJson ==
    /\ pc_clean = "cleaned"
    /\ extracted_text' = extract_json_content(raw_text)
    /\ pc_clean' = "extracted"
    /\ UNCHANGED <<raw_text, pieces, cleaned_text, cleaned_again,
                   evalVars, MODEL_PRICING, pricingVars, mainVars, promptVars, aiVars>>

NextClean == Compose \/ CleanResponse \/ CleanAgain \/ ExtractJson

SpecClean == InitClean /\ [][NextClean]_vars

-----------------------------------------------------------------------------
(* SpecPrompt: one call of build_jeopardy_prompt, on the category of a     *)
(* test case, with a difficulty and a reference material.                  *)

TEST_CASE_FIELDS ==
    << [category |-> "U.S. Presidents", content_topic |-> "U.S. Presidents",
        theme |-> "American History"],
       [category |-> "Solar System Facts", content_topic |-> "Solar System",
        theme |-> "Space Science"],
       [category |-> "Marvel Movies",
        content_topic |-> "Marvel Cinematic Universe",
        theme |-> "Pop Culture"] >>

Difficulties ==
    {PyStr(d) : d \in {"easy", "normal", "hard", "Easy", "HARD", "expert", ""}}
    \cup {PyNone, Omitted}

\* A text of n characters that shows where it is cut.
TextOfLength(n) == [i \in 1..n |-> IF i <= REFERENCE_LIMIT THEN "a" ELSE "z"]

ReferenceMaterials ==
    {NoReference, Reference(<<>>), Reference(TextOfLength(5)),
     Reference(TextOfLength(REFERENCE_LIMIT)),
     Reference(TextOfLength(REFERENCE_LIMIT + 2))}

PromptTypes == {"categories-generate", "category-replace"}

InitPrompt ==
    AiIdle /\ PromptIdle /\ CleanIdle /\ EvalIdle /\ PricingIdle /\ MainIdle /\ api_key = TRUE

\* The caller settles the arguments.
ChooseArguments ==
    /\ pc_prompt = "args"
    /\ \E tc \in 1..Len(TEST_CASE_FIELDS), d \in Difficulties,
          r \in ReferenceMaterials, t \in PromptTypes :
          prompt_args' = [test_case |-> tc, difficulty |-> d,
                          reference_material |-> r, prompt_type |-> t]
    /\ pc_prompt' = "call"
    /\ UNCHANGED <<prompt, categories_prompt, aiVars, cleanVars, evalVars, MODEL_PRICING, pricingVars,
                   mainVars>>

\* The call; a difficulty left out takes the default of the signature.
BuildPrompt ==
    /\ pc_prompt = "call"
    /\ LET fields == TEST_CASE_FIELDS[prompt_args.test_case]
           difficulty == IF prompt_args.difficulty = Omitted
                         THEN PyStr("normal")
                         ELSE prompt_args.difficulty
       IN  prompt' = build_jeopardy_prompt(fields.category,
                                           fields.content_topic, fields.theme,
                                           difficulty,
                                           prompt_args.reference_material)
    /\ pc_prompt' = "built"
    /\ UNCHANGED <<prompt_args, categories_prompt, aiVars, cleanVars, evalVars,
                   MODEL_PRICING, pricingVars, mainVars>>

\* benchmark_ai: build_prompt(type, context, difficulty), all three given.
BuildCategoriesPrompt ==
    /\ pc_prompt = "call"
    /\ prompt_args.difficulty # Omitted
    /\ categories_prompt' = build_prompt(prompt_args.prompt_type,
                                         TEST_PROMPT.context,
                                         prompt_args.difficulty)
    /\ pc_prompt' = "built_categories"
    /\ UNCHANGED <<prompt_args, prompt, aiVars, cleanVars, evalVars, MODEL_PRICING,
                   pricingVars, mainVars>>

NextPrompt == ChooseArguments \/ BuildPrompt \/ BuildCategoriesPrompt

SpecPrompt == InitPrompt /\ [][NextPrompt]_vars

-----------------------------------------------------------------------------
(* benchmark_ai.py: extract_json, evaluate_quality, print_result and the   *)
(* loop of main.  What call_openrouter produced is [kind, message,         *)
(* content, usage]: kind "raised" (the call raises, with that message) or  *)
(* "content"; content is None or a text, kept as the document it denotes:  *)
(* [kind, has_categories, categories] with kind "invalid" (not JSON),      *)
(* "null", "number", "list" or "object".  A category is [title,            *)
(* contentTopic, clues].                                                   *)

MODELS_TO_TEST == <<"google/gemini-2.5-flash-lite", "z-ai/glm-4.7-flash">>

Document(kind, has_categories, categories) ==
    [kind |-> kind, has_categories |-> has_categories, categories |-> categories]
NoneContent == Document("None", FALSE, <<>>)
NoneData == Document("None", FALSE, <<>>)

\* content.strip() on None raises; json.loads failing gives None.
extract_json(content) ==
    IF content.kind = "None" THEN Raised("AttributeError")
    ELSE IF content.kind \in {"invalid", "null"} THEN Returned(NoneData)
    ELSE Returned(content)

\* The record returned for "not data or 'categories' not in data".
invalid_quality ==
    [ valid_json |-> FALSE,
      has_categories |-> FALSE,
      category_count |-> 0,
      total_clues |-> 0,
      complete_clues |-> 0,
      issues |-> <<"No valid JSON or missing categories">> ]

\* sorted(actual_values) != sorted(expected_values), by counting.
same_sorted(actual_values, expected_values) ==
    /\ Len(actual_values) = Len(expected_values)
    /\ \A v \in Range(expected_values) :
          Cardinality({i \in 1..Len(actual_values) : PyEq(v, actual_values[i])})
            = Cardinality({i \in 1..Len(expected_values) : expected_values[i] = v})

\* title.lower() in content_topic.lower(); of the titles used here one is
\* its topic and the others do not occur in theirs.
title_in_topic(title, content_topic) == title = content_topic

\* The issues one category adds.
category_issues(cat) ==
    (IF Len(cat.clues) # 5 THEN <<"clue count">> ELSE <<>>)
    \o (IF ~ same_sorted([i \in 1..Len(cat.clues) |-> cat.clues[i].value],
                         EXPECTED_VALUES)
        THEN <<"incorrect values">> ELSE <<>>)
    \o [i \in 1..Cardinality({j \in 1..Len(cat.clues) :
                                  ~ Truthy(cat.clues[j].clue)}) |->
            "Missing clue text"]
    \o [i \in 1..Cardinality({j \in 1..Len(cat.clues) :
                                  ~ Truthy(cat.clues[j].response)}) |->
            "Missing response"]
    \o (IF cat.title = "" \/ cat.contentTopic = ""
        THEN <<"Missing title or contentTopic">> ELSE <<>>)

RECURSIVE all_category_issues(_)
all_category_issues(categories) ==
    IF categories = <<>> THEN <<>>
    ELSE category_issues(Head(categories))
           \o all_category_issues(Tail(categories))

RECURSIVE total_clues(_)
total_clues(categories) ==
    IF categories = <<>> THEN 0
    ELSE Len(Head(categories).clues) + total_clues(Tail(categories))

evaluate_quality(data) ==
    IF data.kind = "number" THEN Raised("TypeError")  \* "categories" not in 5
    ELSE IF data.kind # "object" \/ ~ data.has_categories
    THEN Returned(invalid_quality)
    ELSE
    LET categories == data.categories
        count_issue == IF Len(categories) # 6
                       THEN <<"category count">> ELSE <<>>
    IN  Returned(
          [ valid_json |-> TRUE,
            has_categories |-> Len(categories) > 0,
            category_count |-> Len(categories),
            total_clues |-> total_clues(categories),
            complete_clues |->
                Cardinality({i \in 1..Len(categories) :
                                Len(categories[i].clues) = 5}),
            creative_titles |->
                Cardinality({i \in 1..Len(categories) :
                    /\ categories[i].title # ""
                    /\ categories[i].contentTopic # ""
                    /\ ~ title_in_topic(categories[i].title,
                                        categories[i].contentTopic)}),
            issues |-> count_issue \o all_category_issues(categories) ])

\* print_result reads valid_json, complete_clues, category_count,
\* total_clues, creative_titles and issues, in that order, and returns
\* whether the status is PASS.
print_result(quality) ==
    IF "creative_titles" \notin DOMAIN quality
    THEN Raised("KeyError")
    ELSE Returned(quality.valid_json /\ quality.complete_clues = 6)

error_record(model, message) == [model |-> model, error |-> message]

usage_record(usage) ==
    IF usage.present
    THEN [ present |-> TRUE,
           prompt_tokens |-> usage.prompt_tokens,
           completion_tokens |-> usage.completion_tokens,
           total_tokens |-> usage.prompt_tokens + usage.completion_tokens ]
    ELSE [ present |-> FALSE, prompt_tokens |-> 0, completion_tokens |-> 0,
           total_tokens |-> 0 ]

\* The body of main's loop: the try block and its "except Exception".
test_one_model(model, reply) ==
    IF reply.kind = "raised" THEN error_record(model, reply.message)
    ELSE
    LET data == extract_json(reply.content)
    IN  IF data.raised # "none" THEN error_record(model, data.raised)
        ELSE
        LET quality == evaluate_quality(data.result)
        IN  IF quality.raised # "none" THEN error_record(model, quality.raised)
            ELSE
            LET passed == print_result(quality.result)
            IN  IF passed.raised # "none"
                THEN error_record(model, passed.raised)
                ELSE [ model |-> model,
                       usage |-> usage_record(reply.usage),
                       quality |-> quality.result,
                       passed |-> passed.result,
                       content |-> data.result ]

-----------------------------------------------------------------------------
(* SpecAiMain: benchmark_ai.main over MODELS_TO_TEST, whatever each remote *)
(* call produces.                                                          *)

Category(title, content_topic, clue_count) ==
    [ title |-> title, contentTopic |-> content_topic,
      clues |-> SubSeq(WellFormedClues, 1, clue_count) ]

SixCategories ==
    [i \in 1..6 |-> Category("Geography Genius", "World Capitals", 5)]

AiDocuments ==
    { Document("invalid", FALSE, <<>>),
      Document("null", FALSE, <<>>),
      Document("number", FALSE, <<>>),
      Document("list", FALSE, <<>>),
      Document("object", FALSE, <<>>),
      Document("object", TRUE, <<>>),
      Document("object", TRUE, SixCategories),
      Document("object", TRUE,
               [SixCategories EXCEPT ![6] = Category("World Capitals",
                                                     "World Capitals", 4)]),
      Document("object", TRUE, SubSeq(SixCategories, 1, 5)) }

NoUsage == [present |-> FALSE, prompt_tokens |-> 0, completion_tokens |-> 0]
SomeUsage == [present |-> TRUE, prompt_tokens |-> 300, completion_tokens |-> 150]

AiReplies ==
    {[kind |-> "raised", message |-> "Connection error.",
      content |-> NoneContent, usage |-> NoUsage],
     [kind |-> "content", message |-> "", content |-> NoneContent,
      usage |-> SomeUsage],
     [kind |-> "content", message |-> "",
      content |-> Document("object", TRUE, SixCategories), usage |-> NoUsage]}
    \cup {[kind |-> "content", message |-> "", content |-> d,
           usage |-> SomeUsage] : d \in AiDocuments}

InitAiMain ==
    AiIdle /\ PromptIdle /\ CleanIdle /\ EvalIdle /\ PricingIdle /\ MainIdle
    /\ api_key = TRUE

\* One pass of "for model in MODELS_TO_TEST".
AiTestModel ==
    /\ ai_pc = "loop"
    /\ \E reply \in AiReplies :
          /\ ai_results' = Append(ai_results,
                                  test_one_model(MODELS_TO_TEST[ai_mi], reply))
          /\ ai_log' = Append(ai_log, reply)
    /\ ai_mi' = ai_mi + 1
    /\ ai_pc' = IF ai_mi < Len(MODELS_TO_TEST) THEN "loop" ELSE "summary"
    /\ UNCHANGED <<cleanVars, promptVars, evalVars, MODEL_PRICING, pricingVars,
                   mainVars>>

\* The summary table over the records without an error, and the file.
AiSummary ==
    /\ ai_pc = "summary"
    /\ ai_pc' = "done"
    /\ UNCHANGED <<ai_mi, ai_results, ai_log, cleanVars, promptVars, evalVars,
                   MODEL_PRICING, pricingVars, mainVars>>

NextAiMain == AiTestModel \/ AiSummary

SpecAiMain == InitAiMain /\ [][NextAiMain]_vars

-----------------------------------------------------------------------------
(* What the claims speak of, stated from the result and the clue list.     *)

EvalDone == pc_eval = "done"
EvalReturned == pc_eval = "done" /\ outcome.raised = "none"

\* A valid response with a non-empty clue list.
HasClues ==
    /\ EvalReturned
    /\ outcome.result.valid_json
    /\ outcome.result.clues # <<>>

\* A field that carries something (a non-empty text).
HasText(f) == f.kind \in {"str", "num"} /\ (f.kind = "str" => Len(f.s) > 0)

\* Trimmed and lower-cased, as a specification: the part of s from its
\* first to its last non-blank character, with capitals made small.
Blank(c) == c = " " \/ c = "\t" \/ c = "\n"
Small(c) ==
    IF c \in {"R", "P", "B", "M", "L"}
    THEN [R |-> "r", P |-> "p", B |-> "b", M |-> "m", L |-> "l"][c]
    ELSE c
Trimmed(s) ==
    LET inked == {i \in 1..Len(s) : ~ Blank(s[i])}
    IN  IF inked = {} THEN <<>>
        ELSE LET first == CHOOSE i \in inked : \A j \in inked : i <= j
                 last == CHOOSE i \in inked : \A j \in inked : i >= j
             IN  [k \in 1..(last - first + 1) |-> s[first + k - 1]]
Normal(s) == LET t == Trimmed(s) IN [i \in 1..Len(t) |-> Small(t[i])]

Clamp(n) == IF n < 0 THEN 0 ELSE IF n > 10 THEN 10 ELSE n

\* The penalties of a clue list, counted from the list and the result.
NoClueText(clues) == Cardinality({i \in 1..Len(clues) : ~ HasText(clues[i].clue)})
NoResponseText(clues) ==
    Cardinality({i \in 1..Len(clues) : ~ HasText(clues[i].response)})
Shortfall(clues) == IF Len(clues) < 5 THEN 5 - Len(clues) ELSE 0
PenaltySum(result) ==
    2 * Len(result.missing_values) + 3 * Len(result.duplicate_answers)
    + NoClueText(result.clues) + NoResponseText(result.clues)
    + Shortfall(result.clues)

\* The ladder values no clue carries.
Uncarried(clues) ==
    {v \in Range(EXPECTED_VALUES) :
        ~ \E i \in 1..Len(clues) : clues[i].value = IntValue(v)}

-----------------------------------------------------------------------------
(* Claims about evaluate_response (checked under SpecEval).                *)

\* C1: evaluate_response never raises: whatever the response text, the call
\* ends by returning a result, never by an exception.
C1_NeverRaises == EvalDone => outcome.raised = "none"

\* C6: the quality_score of every returned result is an integer in 0..10.
C6_ScoreInRange ==
    EvalReturned => outcome.result.quality_score \in 0..10

\* C6 witness: penalties worth more than ten points, and a score of 0.
C6_Witness ==
    /\ HasClues
    /\ PenaltySum(outcome.result) > 10
    /\ outcome.result.quality_score = 0

\* C7: for a valid response with clues, quality_score is 10 less 2 per
\* missing value, 3 per duplicate entry, 1 per clue without clue text, 1 per
\* clue without response text and 1 per clue short of five, clamped to 0..10.
C7_ScoreFormula ==
    HasClues =>
        outcome.result.quality_score = Clamp(10 - PenaltySum(outcome.result))

\* C7 witness: the four clues 200..800 with nothing else wrong score 7
\* (one missing value and one clue short).
C7_Witness ==
    /\ HasClues
    /\ outcome.result.clues = SubSeq(WellFormedClues, 1, 4)
    /\ outcome.result.missing_values = <<1000>>
    /\ outcome.result.quality_score = 7

\* C8: for a valid response with clues, missing_values holds exactly the
\* ladder values that no clue carries (so it is a subset of the ladder), each
\* once, whether or not some other value is carried twice.
C8_MissingExact ==
    HasClues =>
        /\ Range(outcome.result.missing_values) = Uncarried(outcome.result.clues)
        /\ Range(outcome.result.missing_values) \subseteq Range(EXPECTED_VALUES)
        /\ Len(outcome.result.missing_values)
              = Cardinality(Range(outcome.result.missing_values))

\* C8 witness: one value carried by two clues while another is carried by
\* none, and that one is reported missing.
C8_Witness ==
    /\ HasClues
    /\ \E i, j \in 1..Len(outcome.result.clues) :
          /\ i < j
          /\ outcome.result.clues[i].value.tag = "int"
          /\ outcome.result.clues[i].value = outcome.result.clues[j].value
    /\ Len(outcome.result.clues) = 5
    /\ outcome.result.missing_values # <<>>

\* C9: each duplicate entry names the value of a clue whose normalized
\* response is the entry's text and repeats that of an earlier clue.
C9_EntryNamesRepeatingClue ==
    HasClues =>
        LET clues == outcome.result.clues
            dups == outcome.result.duplicate_answers
        IN  \A k \in 1..Len(dups) :
              \E j \in 1..Len(clues) :
                /\ clues[j].value = dups[k].value
                /\ HasText(clues[j].response)
                /\ Normal(clues[j].response.s) = dups[k].response
                /\ \E i \in 1..(j - 1) :
                      /\ HasText(clues[i].response)
                      /\ Normal(clues[i].response.s) = dups[k].response

\* C10 as stated: duplicates are reported exactly when two clues' trimmed,
\* lower-cased responses are equal, so that two responses which differ only
\* in case or surrounding whitespace are duplicates.  (Taken over the pairs
\* of response strings of which at least one is written out, i.e. not "".)
C10_AnyEqualResponses ==
    HasClues =>
        LET clues == outcome.result.clues
        IN  (outcome.result.duplicate_answers # <<>>)
            <=> \E i, j \in 1..Len(clues) :
                  /\ i < j
                  /\ clues[i].response.kind = "str"
                  /\ clues[j].response.kind = "str"
                  /\ clues[i].response.s # <<>> \/ clues[j].response.s # <<>>
                  /\ Normal(clues[i].response.s) = Normal(clues[j].response.s)

\* C10 (amended): among the clues whose response text is not empty, a text
\* is reported in a duplicate entry exactly when it is the trimmed,
\* lower-cased response of two of them; clues with an absent or empty
\* response are not compared.
C10_NonEmptyEqualResponses ==
    HasClues =>
        LET clues == outcome.result.clues
            dups == outcome.result.duplicate_answers
            texted == {i \in 1..Len(clues) : HasText(clues[i].response)}
            repeated == {Normal(clues[i].response.s) : i \in
                           {i \in texted : \E j \in texted :
                               /\ j # i
                               /\ Normal(clues[j].response.s)
                                    = Normal(clues[i].response.s)}}
        IN  {dups[k].response : k \in 1..Len(dups)} = repeated

\* C10 witness: two responses that differ as written, one in case and one
\* in surrounding whitespace from a third, all reported under one text.
C10_Witness ==
    /\ HasClues
    /\ \E i, j \in 1..Len(outcome.result.clues) :
          /\ i < j
          /\ outcome.result.clues[i].response = Str(<<"R">>)
          /\ outcome.result.clues[j].response \in {Str(<<"r">>), Str(<<" ", "R">>)}
    /\ \E k \in 1..Len(outcome.result.duplicate_answers) :
          outcome.result.duplicate_answers[k].response = <<"r">>

\* The derived fields as evaluate_response first sets them.
DerivedDefaults(result) ==
    /\ result.all_values_present = FALSE
    /\ result.missing_values = <<>>
    /\ result.unique_answers = FALSE
    /\ result.duplicate_answers = <<>>
    /\ result.clue_count = 0
    /\ result.quality_score = 0

\* C11: for a text that is not parseable as JSON the call returns a result
\* with valid_json false, a parse_error that is set and not empty,
\* quality_score 0 and every derived field at its default.
C11_UnparseableText ==
    (EvalDone /\ response_text.kind = "invalid") =>
        /\ outcome.raised = "none"
        /\ outcome.result.valid_json = FALSE
        /\ outcome.result.parse_error \notin {"None", ""}
        /\ DerivedDefaults(outcome.result)

\* C11 witness: an unparseable text evaluated, with tokens used.
C11_Witness ==
    /\ EvalReturned
    /\ response_text.kind = "invalid"
    /\ outcome.result.parse_error = "JSON parse error"
    /\ outcome.result.token_usage.total_tokens > 0

\* C12: for a JSON object whose clues are absent or an empty list the call
\* returns with parse_error "No clues found in response", quality_score 0,
\* clue_count 0 and the other derived fields at their defaults: no penalty
\* is computed.
C12_NoClues ==
    (EvalDone /\ response_text.kind = "object"
              /\ response_text.clues.kind \in {"absent", "list"}
              /\ response_text.clues.items = <<>>) =>
        /\ outcome.raised = "none"
        /\ outcome.result.valid_json = TRUE
        /\ outcome.result.parse_error = "No clues found in response"
        /\ DerivedDefaults(outcome.result)

\* C12 witnesses: the clues key absent, and an empty clue list.
C12_Witness ==
    /\ EvalReturned
    /\ response_text.kind = "object"
    /\ response_text.clues.kind = "list"
    /\ response_text.clues.items = <<>>
    /\ outcome.result.parse_error = "No clues found in response"

\* The clues that have response text, and the normalized text of each.
Texted(clues) == {i \in 1..Len(clues) : HasText(clues[i].response)}
Sharing(clues, x) == {i \in Texted(clues) : Normal(clues[i].response.s) = x}
DistinctResponses(clues) == {Normal(clues[i].response.s) : i \in Texted(clues)}

\* C24: when k >= 2 clues share a normalized response there are exactly
\* k - 1 duplicate entries for it and 3 (k - 1) is subtracted; the number of
\* duplicate entries is the number of clues with response text less the
\* number of distinct normalized responses.
C24_OneEntryPerRepeat ==
    HasClues =>
        LET clues == outcome.result.clues
            dups == outcome.result.duplicate_answers
            entries(x) == {k \in 1..Len(dups) : dups[k].response = x}
            repeats == Cardinality(Texted(clues))
                         - Cardinality(DistinctResponses(clues))
        IN  /\ \A x \in DistinctResponses(clues) :
                  Cardinality(entries(x)) = Cardinality(Sharing(clues, x)) - 1
            /\ Len(dups) = repeats
            /\ outcome.result.quality_score
                  = Clamp(10 - 2 * Len(outcome.result.missing_values)
                             - 3 * repeats
                             - NoClueText(clues) - NoResponseText(clues)
                             - Shortfall(clues))

\* C24 witness: three of five clues share one normalized response, two
\* entries are recorded for it and the score is 10 - 3*2 = 4.
C24_Witness ==
    /\ HasClues
    /\ Len(outcome.result.clues) = 5
    /\ \E x \in DistinctResponses(outcome.result.clues) :
          /\ Cardinality(Sharing(outcome.result.clues, x)) = 3
          /\ Cardinality({k \in 1..Len(outcome.result.duplicate_answers) :
                             outcome.result.duplicate_answers[k].response = x}) = 2
    /\ Len(outcome.result.duplicate_answers) = 2
    /\ outcome.result.quality_score = 4

\* The response was valid JSON with a non-empty clue list.
ValidWithClues(result) == result.valid_json /\ result.clue_count > 0

\* C28: in every returned result unique_answers is true exactly when the
\* response is valid JSON with a non-empty clue list and duplicate_answers
\* is empty.
C28_UniqueIffNoDuplicates ==
    EvalReturned =>
        (outcome.result.unique_answers
            <=> (ValidWithClues(outcome.result)
                   /\ outcome.result.duplicate_answers = <<>>))

\* C28 witness: clues of which one has no response and the others differ:
\* unique_answers is true.
C28_Witness ==
    /\ HasClues
    /\ NoResponseText(outcome.result.clues) > 0
    /\ Cardinality(Texted(outcome.result.clues)) >= 2
    /\ outcome.result.duplicate_answers = <<>>
    /\ outcome.result.unique_answers = TRUE

\* C29: in every returned result all_values_present is true exactly when
\* the response is valid JSON with a non-empty clue list and missing_values
\* is empty; after a parse failure or with no clues it is false although
\* missing_values is empty.
C29_AllPresentIffNoneMissing ==
    EvalReturned =>
        /\ outcome.result.all_values_present
              <=> (ValidWithClues(outcome.result)
                     /\ outcome.result.missing_values = <<>>)
        /\ ~ ValidWithClues(outcome.result) =>
              /\ outcome.result.all_values_present = FALSE
              /\ outcome.result.missing_values = <<>>

\* C29 witness: a valid response without clues: nothing is listed as
\* missing, and all_values_present is false.
C29_Witness ==
    /\ EvalReturned
    /\ outcome.result.valid_json
    /\ outcome.result.clue_count = 0
    /\ outcome.result.missing_values = <<>>
    /\ outcome.result.all_values_present = FALSE

-----------------------------------------------------------------------------
(* Claims about the pricing cache (checked under SpecPricing).             *)

\* C4: however many fetch_model_pricing calls are made, and however the
\* first went, the endpoint is requested at most once and the cache is
\* populated at most once.
C4_FetchedAtMostOnce == pricing_requests <= 1 /\ populations <= 1

\* C5: after a fetch that failed (at the request, at the status, or while
\* the records were read) the mapping is empty, and so the cost of any
\* model at any token counts is 0.
C5_FailedFetchLeavesEmpty ==
    last_fetch = "failed" =>
        /\ MODEL_PRICING = <<>>
        /\ \A model \in ModelIds, u \in Usages :
              calculate_cost(model, u.prompt_tokens, u.completion_tokens) = 0

\* C13: a model without an entry costs exactly 0 whatever the token
\* counts, in the empty mapping and in a mapping that holds other models;
\* the call returns (no error).  Entries are never removed, so a model
\* without an entry now had none when its cost was computed.
C13_UnpricedCostsNothing ==
    /\ (last_cost.model # "none" /\ last_cost.model \notin DOMAIN MODEL_PRICING)
            => last_cost.cost = 0
    /\ \A model \in (ModelIds \cup {"z-ai/glm-4.7"}) \ DOMAIN MODEL_PRICING :
          \A u \in Usages :
             calculate_cost(model, u.prompt_tokens, u.completion_tokens) = 0

\* C13 witness: the mapping holds a priced model, and the cost of another
\* model at 300 and 150 tokens has come out as 0.
C13_Witness ==
    /\ MODEL_PRICING # <<>>
    /\ \E m \in DOMAIN MODEL_PRICING : MODEL_PRICING[m].prompt > 0
    /\ last_cost.model \notin DOMAIN MODEL_PRICING \cup {"none"}
    /\ last_cost.prompt_tokens = 300
    /\ last_cost.completion_tokens = 150
    /\ last_cost.cost = 0

-----------------------------------------------------------------------------
(* Claims about the driver (checked under SpecMain).                       *)

MainEnded == pc \in {"returned", "crashed"}
LoopLeft == pc \in {"report", "save", "crashed"} \/ (pc = "returned" /\ api_key)

\* The records made so far, in the order of the calls.
RECURSIVE Flatten(_)
Flatten(all_results) ==
    IF all_results = <<>> THEN <<>>
    ELSE Head(all_results).results \o Flatten(Tail(all_results))
AllRecords == Flatten(results) \o model_results

\* Every (model, test case) pair, models first, in the driver's order.
AllPairs ==
    [k \in 1..(Len(MODELS) * Len(TEST_CASES)) |->
        [ model |-> MODELS[((k - 1) \div Len(TEST_CASES)) + 1],
          test_case |-> TEST_CASES[((k - 1) % Len(TEST_CASES)) + 1] ]]

\* C2: a run of main that starts with an API key ends having rendered the
\* report and written the results file exactly once, whichever remote calls
\* failed.
C2_RunCompletes ==
    (MainEnded /\ api_key) => (reports_rendered = 1 /\ files_written = 1)

\* C3: a remote call that raises yields a failure record (success false,
\* the exception message as error, quality_score 0, cost 0) and does not
\* leave test_model: no run ends inside the loop, and once the loop is left
\* a request has been issued for every (model, test case) pair.
C3_FailureIsRecorded ==
    /\ \A k \in 1..Len(call_log) :
          call_log[k].reply.kind = "raised" =>
            /\ k \in 1..Len(AllRecords)
            /\ AllRecords[k].success = FALSE
            /\ AllRecords[k].error = call_log[k].reply.message
            /\ AllRecords[k].evaluation.quality_score = 0
            /\ AllRecords[k].evaluation.cost_usd = 0
    /\ LoopLeft =>
          /\ Len(call_log) = Len(AllPairs)
          /\ \A k \in 1..Len(call_log) :
                /\ call_log[k].model = AllPairs[k].model
                /\ call_log[k].test_case = AllPairs[k].test_case

\* C3 witness: the first call raised, and the loop went on to the last pair.
C3_Witness ==
    /\ LoopLeft
    /\ Len(call_log) = Len(AllPairs)
    /\ call_log[1].reply.kind = "raised"
    /\ call_log[Len(call_log)].reply.kind = "text"
    /\ AllRecords[1].success = FALSE

\* C14: main issues exactly one completion request per (model, test case)
\* pair, in MODELS order and within a model in TEST_CASES order: the requests
\* issued so far are always the first pairs of that order, each once; every
\* request issued has its record (it returned or failed) before the next is
\* issued; and when the loop is left every pair has been requested.
C14_OnePerPairInOrder ==
    /\ Len(call_log) <= Len(AllPairs)
    /\ \A k \in 1..Len(call_log) :
          [model |-> call_log[k].model, test_case |-> call_log[k].test_case]
              = AllPairs[k]
    /\ \A j, k \in 1..Len(call_log) :
          (call_log[j].model = call_log[k].model
             /\ call_log[j].test_case = call_log[k].test_case) => j = k
    /\ Len(AllRecords) = Len(call_log)
    /\ LoopLeft => Len(call_log) = Len(MODELS) * Len(TEST_CASES)

\* C14 witness: the loop has just been left, the first model's third request
\* failed, and the second model's first request came right after it.
C14_Witness ==
    /\ pc = "report"
    /\ Len(call_log) = Len(MODELS) * Len(TEST_CASES)
    /\ call_log[Len(TEST_CASES)].reply.kind = "raised"
    /\ call_log[Len(TEST_CASES)].model = MODELS[1]
    /\ call_log[Len(TEST_CASES) + 1].model = MODELS[2]
    /\ call_log[Len(TEST_CASES) + 1].test_case = TEST_CASES[1]

-----------------------------------------------------------------------------
(* Claims about the cleaner (checked under SpecClean).                     *)

CleanDone == pc_clean \in {"cleaned", "recleaned", "extracted"}

BeginsWithFence(t) == Len(t) >= 3 /\ \A i \in 1..3 : t[i] = BACKQUOTE
EndsWithFence(t) ==
    Len(t) >= 3 /\ \A i \in (Len(t) - 2)..Len(t) : t[i] = BACKQUOTE
NoFence(t) ==
    ~ \E i \in 1..(Len(t) - 2) : \A k \in 0..2 : t[i + k] = BACKQUOTE
LineBreaks(t) == {i \in 1..Len(t) : t[i] = NEWLINE}
FirstBreak(t) == CHOOSE i \in LineBreaks(t) : \A j \in LineBreaks(t) : i <= j

\* The text from position a to position b.
Part(t, a, b) == [k \in 1..(b - a + 1) |-> t[a + k - 1]]

\* What follows the first line: nothing, when the text is one line.
AfterFirstLine(t) ==
    IF LineBreaks(t) = {} THEN <<>> ELSE Part(t, FirstBreak(t) + 1, Len(t))

\* Without a closing marker and the whitespace around what is left.
WithoutClosingFence(t) ==
    IF EndsWithFence(t) THEN Trimmed(Part(t, 1, Len(t) - 3)) ELSE t

\* C15 as stated: for every text that begins with a fence marker, of one
\* line or of several, the cleaner removes the whole first line and, if the
\* text ends with a closing fence marker, that marker and the whitespace
\* before it.
C15_FirstLineRemoved ==
    (CleanDone /\ BeginsWithFence(raw_text)) =>
        cleaned_text = WithoutClosingFence(AfterFirstLine(raw_text))

\* C15 (amended): for a text of several lines that begins with a fence
\* marker the cleaner removes the whole first line and, if the text ends
\* with a closing fence marker, that marker and the whitespace around what
\* is left; a text of one line keeps its first line and loses only a
\* closing marker.
C15_FirstLineRemovedWhenSeveral ==
    (CleanDone /\ BeginsWithFence(raw_text)) =>
        cleaned_text = IF LineBreaks(raw_text) # {}
                       THEN WithoutClosingFence(AfterFirstLine(raw_text))
                       ELSE WithoutClosingFence(raw_text)

\* C15 witness: a tagged opening line, a payload with blanks around it and
\* a closing fence; the payload alone comes back.
C15_Witness ==
    /\ CleanDone
    /\ Len(raw_text) > 6
    /\ BeginsWithFence(raw_text)
    /\ EndsWithFence(raw_text)
    /\ raw_text[4] = "j"
    /\ raw_text[5] = NEWLINE
    /\ raw_text[6] = " "
    /\ cleaned_text = <<"j">>

\* The text is a fence marker, a language tag, a newline, a payload, a
\* newline and a fence marker; the payload has no surrounding whitespace
\* and neither begins nor ends with a fence marker.
Tag(t) == Part(t, 4, FirstBreak(t) - 1)
Payload(t) == Part(t, FirstBreak(t) + 1, Len(t) - 4)
Wrapped(t) ==
    /\ BeginsWithFence(t)
    /\ LineBreaks(t) # {}
    /\ Tag(t) # <<>>
    /\ \A i \in 1..Len(Tag(t)) : Tag(t)[i] \in {"j", "s", "o", "n"}
    /\ Len(t) >= FirstBreak(t) + 4
    /\ t[Len(t) - 3] = NEWLINE
    /\ EndsWithFence(t)
    /\ Payload(t) = Trimmed(Payload(t))
    /\ ~ BeginsWithFence(Payload(t))
    /\ ~ EndsWithFence(Payload(t))

\* C16: cleaning a payload wrapped in a fenced block with a language tag
\* returns exactly the payload.
C16_WrappedPayloadComesBack ==
    (CleanDone /\ Wrapped(raw_text)) => cleaned_text = Payload(raw_text)

\* C16 witness: a payload of three characters with a newline inside it.
C16_Witness ==
    /\ CleanDone
    /\ Wrapped(raw_text)
    /\ Payload(raw_text) = <<"j", NEWLINE, "j">>
    /\ cleaned_text = <<"j", NEWLINE, "j">>

\* C17: cleaning is idempotent: cleaning what the cleaner returned gives
\* the same text again.
C17_Idempotent == pc_clean = "recleaned" => cleaned_again = cleaned_text

\* C18: a text that does not begin with a fence marker is returned
\* unchanged.
C18_UnfencedUnchanged ==
    (CleanDone /\ ~ BeginsWithFence(raw_text)) => cleaned_text = raw_text

\* C18 witness: a text with a blank before a fenced block comes back whole.
C18_Witness ==
    /\ CleanDone
    /\ Len(raw_text) > 4
    /\ raw_text[1] = " "
    /\ BeginsWithFence(Tail(raw_text))
    /\ EndsWithFence(raw_text)
    /\ cleaned_text = raw_text

\* C19 as stated: when no fence is present the returned text is trimmed: it
\* has no leading or trailing whitespace.
C19_UnfencedIsTrimmed ==
    (CleanDone /\ NoFence(raw_text)) => cleaned_text = Trimmed(cleaned_text)

\* C19 (amended): when no fence is present the returned text is the given
\* text with its leading and trailing whitespace kept: it is as long as the
\* given text, and trimmed only if the given text was.
C19_UnfencedKeepsWhitespace ==
    (CleanDone /\ NoFence(raw_text)) =>
        /\ Len(cleaned_text) = Len(raw_text)
        /\ Trimmed(cleaned_text) = Trimmed(raw_text)
        /\ (cleaned_text = Trimmed(cleaned_text)) <=> (raw_text = Trimmed(raw_text))

\* C19 witness: a letter with a blank before it and a newline after it.
C19_Witness ==
    /\ CleanDone
    /\ raw_text = <<" ", "j", NEWLINE>>
    /\ cleaned_text = <<" ", "j", NEWLINE>>

-----------------------------------------------------------------------------
(* Claims about build_jeopardy_prompt (checked under SpecPrompt).          *)

PromptBuilt == pc_prompt = "built"

\* C20: build_jeopardy_prompt returns for every difficulty: a difficulty
\* outside easy, normal and hard, one left out included, gives the normal
\* sentence; easy, normal and hard each give their own sentence.
C20_DifficultyFallsBackToNormal ==
    PromptBuilt =>
        LET d == prompt_args.difficulty
        IN  /\ d = PyStr("easy") =>
                  prompt.difficulty_text
                      = "Make questions accessible and straightforward."
            /\ d = PyStr("hard") =>
                  prompt.difficulty_text
                      = "Make questions challenging and specific."
            /\ d \notin {PyStr("easy"), PyStr("hard")} =>
                  prompt.difficulty_text = "Balanced difficulty level."

\* C20 witness: a prompt built for a difficulty that is no key of the dict.
C20_Witness ==
    /\ PromptBuilt
    /\ prompt_args.difficulty = PyStr("expert")
    /\ prompt.difficulty_text = "Balanced difficulty level."
    /\ prompt.category = "Marvel Movies"

\* C21: build_prompt, the builder for several categories, chooses the
\* difficulty sentence as build_jeopardy_prompt does: easy, normal and hard
\* each give their own sentence in the generated prompt, any other
\* difficulty gives the normal one.
C21_CategoriesPromptDifficulty ==
    (pc_prompt = "built_categories"
        /\ prompt_args.prompt_type = "categories-generate") =>
        LET d == prompt_args.difficulty
        IN  /\ d = PyStr("easy") =>
                  categories_prompt.user.difficulty_text
                      = "Make questions accessible and straightforward."
            /\ d = PyStr("hard") =>
                  categories_prompt.user.difficulty_text
                      = "Make questions challenging and specific."
            /\ d \notin {PyStr("easy"), PyStr("hard")} =>
                  categories_prompt.user.difficulty_text
                      = "Balanced difficulty level."

\* C22: of a reference text longer than 3000 characters exactly the first
\* 3000 characters are embedded in the prompt; a non-empty reference text of
\* at most 3000 characters is embedded whole; the call returns either way.
C22_ReferenceCutAtLimit ==
    (PromptBuilt /\ prompt_args.reference_material.kind = "str"
                 /\ prompt_args.reference_material.text # <<>>) =>
        LET text == prompt_args.reference_material.text
            embedded == prompt.ref_material_text
        IN  /\ embedded.present
            /\ Len(text) > 3000 =>
                  /\ Len(embedded.material) = 3000
                  /\ \A i \in 1..3000 : embedded.material[i] = text[i]
            /\ Len(text) <= 3000 => embedded.material = text

\* C22 witness: a reference text of 3002 characters, of which 3000 are
\* embedded.
C22_Witness ==
    /\ PromptBuilt
    /\ prompt_args.reference_material.kind = "str"
    /\ Len(prompt_args.reference_material.text) = 3002
    /\ Len(prompt.ref_material_text.material) = 3000
    /\ prompt.ref_material_text.material[3000] = "a"

\* C23: for a model with a pricing entry calculate_cost returns
\* (prompt_tokens/1e6) * prompt price + (completion_tokens/1e6) * completion
\* price (here in millionths of a dollar): 0 at zero tokens, linear in each
\* count, and a function of the entry and the two counts alone.
C23_CostFormula ==
    /\ last_cost.model \in DOMAIN last_cost.table =>
          last_cost.cost
              = last_cost.prompt_tokens * last_cost.table[last_cost.model].prompt
                + last_cost.completion_tokens
                    * last_cost.table[last_cost.model].completion
    /\ \A model \in DOMAIN MODEL_PRICING :
          /\ calculate_cost(model, 0, 0) = 0
          /\ \A u, v \in CostUsages :
                calculate_cost(model, u.prompt_tokens + v.prompt_tokens,
                               u.completion_tokens + v.completion_tokens)
                  = calculate_cost(model, u.prompt_tokens, u.completion_tokens)
                    + calculate_cost(model, v.prompt_tokens, v.completion_tokens)
          /\ \A u \in CostUsages :
                calculate_cost(model, u.prompt_tokens, u.completion_tokens)
                  = u.prompt_tokens * MODEL_PRICING[model].prompt
                    + u.completion_tokens * MODEL_PRICING[model].completion

\* C23 witness: 600 prompt and 450 completion tokens at prices 3 and 25.
C23_Witness ==
    /\ last_cost.model \in DOMAIN last_cost.table
    /\ last_cost.table[last_cost.model] = [prompt |-> 3, completion |-> 25]
    /\ last_cost.prompt_tokens = 600
    /\ last_cost.completion_tokens = 450
    /\ last_cost.cost = 13050

\* The fields of an EvaluationResult.
EvaluationFields ==
    {"valid_json", "parse_error", "all_values_present", "missing_values",
     "unique_answers", "duplicate_answers", "clue_count", "quality_score",
     "token_usage", "cost_usd"}

\* C25: every record test_model returns, of a call that succeeded or of one
\* that failed, has an evaluation with every field of an EvaluationResult.
C25_EvaluationFieldsInEveryRecord ==
    \A k \in 1..Len(AllRecords) :
        EvaluationFields \subseteq DOMAIN AllRecords[k].evaluation

-----------------------------------------------------------------------------
(* Claims about benchmark_ai.main (checked under SpecAiMain).              *)

\* The call returned a text that is not JSON or has no categories.
Unusable(reply) ==
    /\ reply.kind = "content"
    /\ reply.content.kind # "None"
    /\ \/ reply.content.kind = "invalid"
       \/ (reply.content.kind = "object" /\ ~ reply.content.has_categories)

\* C26: a response that cannot be parsed as JSON, or that lacks categories,
\* is recorded as a completed test with its quality record (valid_json
\* false) and passed false, not as an error record; an error record is made
\* only when the remote call itself failed.
C26_UnusableResponseIsCompleted ==
    \A k \in 1..Len(ai_results) :
        /\ Unusable(ai_log[k]) =>
              /\ "error" \notin DOMAIN ai_results[k]
              /\ ai_results[k].quality.valid_json = FALSE
              /\ ai_results[k].passed = FALSE
        /\ "error" \in DOMAIN ai_results[k] => ai_log[k].kind = "raised"

-----------------------------------------------------------------------------
(* More claims about the pricing cache (checked under SpecPricing).        *)

\* C27: once the mapping is non-empty no step changes it or sends a
\* request: a later fetch_model_pricing call returns it as it is, and
\* calculate_cost never changes the mapping, empty or not.
C27_FilledCacheIsFrozen ==
    [][ /\ MODEL_PRICING # <<>> =>
              /\ MODEL_PRICING' = MODEL_PRICING
              /\ pricing_requests' = pricing_requests
              /\ populations' = populations
        /\ last_cost' # last_cost => MODEL_PRICING' = MODEL_PRICING ]_vars

\* C27 witness: a fetch answered from the filled cache, after a cost was
\* computed from it.
C27_Witness ==
    /\ MODEL_PRICING # <<>>
    /\ last_fetch = "cached"
    /\ fetch_calls >= 2
    /\ pricing_requests = 1
    /\ last_cost.model \in DOMAIN last_cost.table
    /\ last_cost.table = MODEL_PRICING

\* C30: the two cleaners agree: for every text, what extract_json hands to
\* the parser is what clean_response returns for it, whatever the language
\* tag, the surrounding whitespace and the number of lines.
C30_CleanersAgree ==
    pc_clean = "extracted" => extracted_text = cleaned_text

====
